---- MODULE Spec2Model ----
(***************************************************************************)
(* A model of the TV-series ratings service of api/index.py and            *)
(* tv_series_ratings.py: the sliding-window rate limiter                     *)
(* (_is_rate_limited), the HTTP handler (handler.do_GET), the aggregator   *)
(* (get_scores) with its three fetch-and-parse stages (search_series,      *)
(* get_season_numbers, get_episode_ratings).                               *)
(*                                                                         *)
(* Time is counted in seconds and advances in steps of TickSeconds.        *)
(* Ratings are counted in tenths: 8.5 is 85, 10.0 is 100.                  *)
(*                                                                         *)
(* Specifications:                                                         *)
(*   SpecWindow   one client calls _is_rate_limited, one call at a time    *)
(*   SpecClients  two clients call _is_rate_limited, one call at a time    *)
(*   SpecConc     two threads run _is_rate_limited statement by statement  *)
(*   SpecHandler  do_GET serves requests, one at a time                    *)
(*   SpecScores   get_scores runs stage by stage against the pages served  *)
(*   SpecRatings  get_episode_ratings parses one page                      *)
(***************************************************************************)
EXTENDS Integers, Sequences, FiniteSets, TLC

\* ------------------------------------------------------------ constants
\* api/index.py:16
RATE_LIMIT_REQUESTS == 10
\* api/index.py:17
RATE_LIMIT_WINDOW_SECONDS == 60
\* api/index.py:125, 30 * 24 * 60 * 60
CACHE_MAX_AGE_SECONDS == 2592000

\* ------------------------------------------------------------ bounds
\* seconds the clock advances by in one Tick
TickSeconds == 30
\* number of Ticks of one behaviour of the sequential limiter
MaxTicks == 3
\* number of Ticks of one behaviour of the concurrent limiter
MaxConcTicks == 1
\* links of a search result page
MaxSearchLinks == 2
\* season links of an episode-listing page
MaxSeasonLinks == 3
\* the largest season number a page links to
MaxSeason == 3
\* episode entries of one season page
MaxEpisodes == 2

Clients == {"A", "B"}
NoClient == "none"
Threads == {1, 2}
\* the clients whose requests are served concurrently
ConcClients == {"A"}

VARIABLES
  now,             \* time.time(), in seconds
  ticks,           \* Ticks taken so far
  request_counts,  \* _request_counts: client -> list of timestamps
  last,            \* the latest call of _is_rate_limited: client, time, result
  seq,             \* flips at every call of _is_rate_limited
  own,             \* history: per client, the times of its admitted calls
                   \*   that lie within the window ending now
  callIndex,       \* history: per client, the number of calls made (saturating)
  firstCallAt,     \* history: per client, the time of its first call (-1: none)
  lastAdmitAt,     \* history: per client, the time of its latest admitted call
  lastRejectAt,    \* history: per client, the time of its latest rejected call
  tpc,             \* per thread: the line of _is_rate_limited it is at
  tclient,         \* per thread: client_ip
  tnow,            \* per thread: the local now
  tlocal,          \* per thread: the filtered list not yet stored
  resp,            \* the request do_GET served last and what it sent back
  pc,              \* get_scores: the stage it is at
  title,           \* get_scores: its argument
  imdb_id,         \* get_scores: local
  display_title,   \* get_scores: local
  seasons,         \* get_scores: local
  idx,             \* get_scores: the position of s in seasons
  ratings,         \* get_scores: local
  all_scores,      \* get_scores: local
  result,          \* get_scores: the dict returned
  raised,          \* get_scores: the exception raised inside the try block
  log,             \* history: the season fetches and sleeps of get_scores
  fetched,         \* history: per season, the list get_episode_ratings returned
  page,            \* get_episode_ratings: the episode entries of the page
  out              \* get_episode_ratings: the list returned

limiterVars == <<now, ticks, request_counts, last, seq, own>>
scenarioVars == <<callIndex, firstCallAt, lastAdmitAt, lastRejectAt>>
threadVars == <<tpc, tclient, tnow, tlocal>>
scoresVars == <<pc, title, imdb_id, display_title, seasons, idx, ratings,
                all_scores, result, raised, log, fetched>>
ratingsVars == <<page, out>>
vars == <<limiterVars, scenarioVars, threadVars, resp, scoresVars, ratingsVars>>

\* ------------------------------------------------------------ _is_rate_limited
\* Prune with the comparison t >= window_start
PruneInclusive(list, t) ==
  SelectSeq(list, LAMBDA x : x >= t - RATE_LIMIT_WINDOW_SECONDS)
\* line 131, 134: [t for t in _request_counts[client_ip] if t > window_start]
Prune(list, t) ==
  SelectSeq(list, LAMBDA x : x > t - RATE_LIMIT_WINDOW_SECONDS)

\* line 136: len(_request_counts[client_ip]) >= RATE_LIMIT_REQUESTS
OverLimit(list) == Len(list) >= RATE_LIMIT_REQUESTS

\* the value _is_rate_limited(c) returns at time t
IsRateLimited(counts, c, t) == OverLimit(Prune(counts[c], t))

\* Record with the append of line 139 placed before the check of line 136
RecordAlways(counts, c, t) ==
  [counts EXCEPT ![c] = Append(Prune(counts[c], t), t)]
\* Record with one list shared by all clients
RecordAnyClient(counts, c, t) ==
  [d \in DOMAIN counts |->
     IF IsRateLimited(counts, c, t) THEN Prune(counts[d], t)
     ELSE Append(Prune(counts[d], t), t)]
\* line 134-140: _request_counts after _is_rate_limited(c) at time t
Record(counts, c, t) ==
  [counts EXCEPT ![c] =
     IF IsRateLimited(counts, c, t) THEN Prune(counts[c], t)
     ELSE Append(Prune(counts[c], t), t)]

\* the number of entries of list inside the window that ends at t
InWindow(list, t) ==
  Cardinality({i \in 1..Len(list) : list[i] > t - RATE_LIMIT_WINDOW_SECONDS})

\* one call of _is_rate_limited(c), run from start to end
CallCore(c) ==
  /\ Len(own[c]) <= RATE_LIMIT_REQUESTS
  /\ request_counts' = Record(request_counts, c, now)
  /\ last' = [client |-> c, at |-> now,
              limited |-> IsRateLimited(request_counts, c, now),
              gap |-> IF lastAdmitAt[c] < 0 THEN -1 ELSE now - lastAdmitAt[c]]
  /\ seq' = 1 - seq
  /\ own' = [own EXCEPT ![c] =
               IF IsRateLimited(request_counts, c, now) THEN @ ELSE Append(@, now)]
  /\ lastAdmitAt' = [lastAdmitAt EXCEPT ![c] =
               IF IsRateLimited(request_counts, c, now) THEN @ ELSE now]
  /\ UNCHANGED <<now, ticks, threadVars, scoresVars, ratingsVars>>

\* the clock advances; nothing is pruned from _request_counts
Advance ==
  /\ ticks' = ticks + 1
  /\ now' = now + TickSeconds
  /\ own' = [c \in Clients |-> Prune(own[c], now + TickSeconds)]
  /\ UNCHANGED <<request_counts, last, seq, scenarioVars, threadVars, resp,
                 scoresVars, ratingsVars>>

Tick == ticks < MaxTicks /\ Advance

NoResponse ==
  [status |-> 0, retry_after |-> 0,
   cache_control |-> [kind |-> "absent", s_maxage |-> 0],
   cdn_cache_control |-> [kind |-> "absent", s_maxage |-> 0],
   body |-> [success |-> FALSE, error |-> [text |-> "none", arg |-> ""]],
   calls |-> <<>>, query |-> <<>>]
NoException == [cls |-> "none", text |-> "none", arg |-> "", not_found |-> FALSE]
NoResult == [pending |-> TRUE]

InitLimiter ==
  /\ now = 0
  /\ ticks = 0
  /\ request_counts = [c \in Clients |-> <<>>]
  /\ last = [client |-> NoClient, at |-> 0, limited |-> FALSE, gap |-> -1]
  /\ seq = 0
  /\ own = [c \in Clients |-> <<>>]
  /\ callIndex = [c \in Clients |-> 0]
  /\ firstCallAt = [c \in Clients |-> -1]
  /\ lastAdmitAt = [c \in Clients |-> -1]
  /\ lastRejectAt = [c \in Clients |-> -1]
  /\ tpc = [t \in Threads |-> "idle"]
  /\ tclient = [t \in Threads |-> NoClient]
  /\ tnow = [t \in Threads |-> 0]
  /\ tlocal = [t \in Threads |-> <<>>]
  /\ resp = NoResponse

InitScoresIdle ==
  /\ pc = "idle"
  /\ title = ""
  /\ imdb_id = ""
  /\ display_title = ""
  /\ seasons = <<>>
  /\ idx = 0
  /\ ratings = <<>>
  /\ all_scores = <<>>
  /\ result = NoResult
  /\ raised = NoException
  /\ log = <<>>
  /\ fetched = {}

InitRatingsIdle ==
  /\ page = <<>>
  /\ out = [done |-> FALSE, ratings |-> <<>>]

Init == InitLimiter /\ InitScoresIdle /\ InitRatingsIdle

\* ------------------------------------------------------------ one client
\* a call of client A, with the history of its calls kept
CallA ==
  /\ CallCore("A")
  /\ callIndex' = [callIndex EXCEPT !["A"] =
                     IF @ > RATE_LIMIT_REQUESTS + 1 THEN @ ELSE @ + 1]
  /\ firstCallAt' = [firstCallAt EXCEPT !["A"] = IF @ < 0 THEN now ELSE @]
  /\ lastRejectAt' = [lastRejectAt EXCEPT !["A"] =
                        IF IsRateLimited(request_counts, "A", now) THEN now ELSE @]
  /\ UNCHANGED resp

NextWindow == CallA \/ Tick
SpecWindow == Init /\ [][NextWindow]_vars

\* ------------------------------------------------------------ two clients
Call(c) ==
  CallCore(c) /\ UNCHANGED <<callIndex, firstCallAt, lastRejectAt, resp>>

NextClients == (\E c \in Clients : Call(c)) \/ Tick
SpecClients == Init /\ [][NextClients]_vars

\* ------------------------------------------------------------ concurrent calls
\* _is_rate_limited run by several threads with no lock (the source takes none):
\* a thread may be preempted between any two statements, and inside line 134
\* between the evaluation of the list comprehension and the store of its value.

\* line 130, 131: now = time.time()
Begin(t, c) ==
  /\ tpc[t] = "idle"
  /\ Len(own[c]) <= RATE_LIMIT_REQUESTS
  /\ tpc' = [tpc EXCEPT ![t] = "filter"]
  /\ tclient' = [tclient EXCEPT ![t] = c]
  /\ tnow' = [tnow EXCEPT ![t] = now]
  /\ UNCHANGED <<limiterVars, scenarioVars, tlocal, resp, scoresVars, ratingsVars>>

\* line 134, right-hand side: [t for t in _request_counts[client_ip] if ...]
Filter(t) ==
  /\ tpc[t] = "filter"
  /\ tlocal' = [tlocal EXCEPT ![t] = Prune(request_counts[tclient[t]], tnow[t])]
  /\ tpc' = [tpc EXCEPT ![t] = "store"]
  /\ UNCHANGED <<limiterVars, scenarioVars, tclient, tnow, resp, scoresVars,
                 ratingsVars>>

\* line 134, the store: _request_counts[client_ip] = ...
Store(t) ==
  /\ tpc[t] = "store"
  /\ request_counts' = [request_counts EXCEPT ![tclient[t]] = tlocal[t]]
  /\ tlocal' = [tlocal EXCEPT ![t] = <<>>]
  /\ tpc' = [tpc EXCEPT ![t] = "check"]
  /\ UNCHANGED <<now, ticks, last, seq, own, scenarioVars, tclient, tnow, resp,
                 scoresVars, ratingsVars>>

\* line 136, 137: if len(...) >= RATE_LIMIT_REQUESTS: return True
Check(t) ==
  /\ tpc[t] = "check"
  /\ tpc' = [tpc EXCEPT ![t] =
               IF OverLimit(request_counts[tclient[t]]) THEN "idle" ELSE "append"]
  /\ UNCHANGED <<limiterVars, scenarioVars, tclient, tnow, tlocal, resp,
                 scoresVars, ratingsVars>>

\* line 139, 140: _request_counts[client_ip].append(now); return False
AppendNow(t) ==
  /\ tpc[t] = "append"
  /\ request_counts' = [request_counts EXCEPT ![tclient[t]] = Append(@, tnow[t])]
  /\ own' = [own EXCEPT ![tclient[t]] = Prune(Append(@, tnow[t]), now)]
  /\ tpc' = [tpc EXCEPT ![t] = "idle"]
  /\ UNCHANGED <<now, ticks, last, seq, scenarioVars, tclient, tnow, tlocal,
                 resp, scoresVars, ratingsVars>>

ConcTick == ticks < MaxConcTicks /\ Advance

NextConc ==
  \/ \E t \in Threads, c \in ConcClients : Begin(t, c)
  \/ \E t \in Threads : Filter(t)
  \/ \E t \in Threads : Store(t)
  \/ \E t \in Threads : Check(t)
  \/ \E t \in Threads : AppendNow(t)
  \/ ConcTick
SpecConc == Init /\ [][NextConc]_vars

\* ------------------------------------------------------------ pages
\* the sequences over S of length at most n
SeqsUpTo(S, n) == UNION {[1..k -> S] : k \in 0..n}

\* the least element of a non-empty set of integers
Least(S) == CHOOSE x \in S : \A y \in S : x <= y

\* sorted(S)
RECURSIVE Sorted(_)
Sorted(S) == IF S = {} THEN <<>> ELSE <<Least(S)>> \o Sorted(S \ {Least(S)})

\* ------------------------------------------------------------ search_series
\* what requests.get and raise_for_status raise when a fetch fails
\* (lines 32-38, 50-55, 69-75); requests.exceptions.InvalidSchema, raised for a
\* redirect to a URL no adapter serves, is a subclass of ValueError
FetchFailures == {"HTTPError", "Timeout", "InvalidSchema"}

\* isinstance(e, ValueError)
IsValueError(cls) == cls \in {"ValueError", "InvalidSchema"}

FetchException(cls) ==
  [cls |-> cls,
   text |-> CASE cls = "HTTPError" -> "503 Server Error"
              [] cls = "Timeout" -> "Read timed out"
              [] OTHER -> "No connection adapters were found",
   arg |-> "", not_found |-> FALSE]

\* line 45: raise ValueError(f"No TV series found for '{title}'")
NotFound(t) ==
  [cls |-> "ValueError", text |-> "No TV series found for", arg |-> t,
   not_found |-> TRUE]

\* int(m.group(1)) on a digit string longer than int converts (line 63)
IntTooLong ==
  [cls |-> "ValueError",
   text |-> "Exceeds the limit for integer string conversion",
   arg |-> "", not_found |-> FALSE]

Titles == {"dark", "zzz"}

\* the links of a search page whose href matches /title/(tt\d+), with the id
\* of the href and the stripped link text
SearchLinks == [id : {"tt1", "tt2"}, text : {"", "Dark"}]
SearchPages == SeqsUpTo(SearchLinks, MaxSearchLinks)

\* line 40-45: the first matching link with a non-empty text
SearchSeries(p) ==
  LET hits == {i \in 1..Len(p) : p[i].text # ""}
  IN IF hits = {} THEN [found |-> FALSE, id |-> "", text |-> ""]
     ELSE [found |-> TRUE, id |-> p[Least(hits)].id, text |-> p[Least(hits)].text]

\* ------------------------------------------------------------ get_season_numbers
\* the links of a listing page whose href matches season=(\d+): the number in
\* the href, whether its digit string is longer than int converts, and whether
\* the link text is all digits
SeasonLinks ==
  [season : 1..MaxSeason, long : {FALSE}, text : {"digits", "label"}]
  \cup [season : {1}, long : {TRUE}, text : {"digits", "label"}]
SeasonPages == SeqsUpTo(SeasonLinks, MaxSeasonLinks)

\* line 62: text.isdigit()
IsDigit(text) == text = "digits"

\* line 58-63: int(m.group(1)) raises for some accepted link
SeasonNumbersRaise(p) ==
  \E i \in 1..Len(p) : IsDigit(p[i].text) /\ p[i].long

\* line 57-64: sorted(seasons)
GetSeasonNumbers(p) ==
  Sorted({p[i].season : i \in {j \in 1..Len(p) : IsDigit(p[j].text)}})

\* ------------------------------------------------------------ get_episode_ratings
\* the characters \w matches, among those the headers are written in
WordChars == {"S", "E", "0", "1", "x"}

\* line 81: re.search(r"\.E0\b", text)
MatchesEpisodeZero(text) ==
  \E i \in 1..(Len(text) - 2) :
    /\ text[i] = "."
    /\ text[i + 1] = "E"
    /\ text[i + 2] = "0"
    /\ (i + 3 > Len(text) \/ text[i + 3] \notin WordChars)

\* the h4 texts of the episode entries
HeaderTexts ==
  { <<"S", "1", ".", "E", "0">>,
    <<"S", "1", ".", "E", "0", " ", "x">>,
    <<"S", "1", ".", "E", "0", "1">>,
    <<"S", "1", ".", "E", "1">>,
    <<"S", "1", "E", "0">> }

\* the texts of the rating spans
RatingTexts == {"8.5", "10.0", "10", "0.0", "10.1", "nan", "N/A", ""}

\* line 86: float(text); ok is FALSE where float raises ValueError
FloatOf(text) ==
  CASE text = "8.5" -> [ok |-> TRUE, nan |-> FALSE, tenths |-> 85]
    [] text = "10.0" -> [ok |-> TRUE, nan |-> FALSE, tenths |-> 100]
    [] text = "10" -> [ok |-> TRUE, nan |-> FALSE, tenths |-> 100]
    [] text = "0.0" -> [ok |-> TRUE, nan |-> FALSE, tenths |-> 0]
    [] text = "10.1" -> [ok |-> TRUE, nan |-> FALSE, tenths |-> 101]
    [] text = "nan" -> [ok |-> TRUE, nan |-> TRUE, tenths |-> 0]
    [] OTHER -> [ok |-> FALSE, nan |-> FALSE, tenths |-> 0]

\* InRange with the comparison val < 10.0
InRangeBelowTen(v) == ~v.nan /\ 0 < v.tenths /\ v.tenths < 100
\* line 87: 0.0 < val <= 10.0
InRange(v) == ~v.nan /\ 0 < v.tenths /\ v.tenths <= 100

\* an article.episode-item-wrapper: whether it has an h4 and the h4's text,
\* whether it has a rating span and the span's stripped text
Entries ==
  [h4 : {TRUE}, header : HeaderTexts, span : {TRUE}, text : RatingTexts]
  \cup [h4 : {FALSE}, header : {<<>>}, span : {TRUE}, text : RatingTexts]
  \cup [h4 : {TRUE}, header : HeaderTexts, span : {FALSE}, text : {""}]
  \cup [h4 : {FALSE}, header : {<<>>}, span : {FALSE}, text : {""}]
EpisodePages == SeqsUpTo(Entries, MaxEpisodes)

\* line 79-90: the body of the loop over the articles
AddRating(acc, e) ==
  IF e.h4 /\ MatchesEpisodeZero(e.header) THEN acc
  ELSE IF ~e.span THEN acc
  ELSE IF ~FloatOf(e.text).ok THEN acc
  ELSE IF InRange(FloatOf(e.text)) THEN Append(acc, FloatOf(e.text).tenths)
  ELSE acc

\* line 77-91: the list get_episode_ratings returns for the entries p
RECURSIVE RatingsUpTo(_, _)
RatingsUpTo(p, n) ==
  IF n = 0 THEN <<>> ELSE AddRating(RatingsUpTo(p, n - 1), p[n])
GetEpisodeRatings(p) == RatingsUpTo(p, Len(p))

\* get_episode_ratings parses the page
ParsePage ==
  /\ ~out.done
  /\ out' = [done |-> TRUE, ratings |-> GetEpisodeRatings(page)]
  /\ UNCHANGED <<limiterVars, scenarioVars, threadVars, resp, scoresVars, page>>

InitRatings ==
  /\ InitLimiter
  /\ InitScoresIdle
  /\ page \in EpisodePages
  /\ out = [done |-> FALSE, ratings |-> <<>>]

NextRatings == ParsePage
SpecRatings == InitRatings /\ [][NextRatings]_vars

\* ------------------------------------------------------------ get_scores
\* line 118
GenericError ==
  [text |-> "An error occurred while fetching data", arg |-> ""]

\* line 113-118: the dict returned when exc is raised inside the try block
ExceptionResult(exc) ==
  IF IsValueError(exc.cls)
  THEN [success |-> FALSE, error |-> [text |-> exc.text, arg |-> exc.arg]]
  ELSE [success |-> FALSE, error |-> GenericError]

\* line 107-112
SuccessResult(shown, id, scores) ==
  [success |-> TRUE, title |-> shown, imdb_id |-> id, seasons |-> scores]

\* KeepSeason with the comparison len(ratings) >= 1
KeepSeasonNonEmpty(r) == Len(r) >= 1
\* line 103: if len(ratings) > 1
KeepSeason(r) == Len(r) > 1

\* the pages the season fetches of get_scores are answered with
RegularHeader == <<"S", "1", ".", "E", "1">>
SpecialHeader == <<"S", "1", ".", "E", "0">>
ServedEntries ==
  { [h4 |-> TRUE, header |-> RegularHeader, span |-> TRUE, text |-> "8.5"],
    [h4 |-> TRUE, header |-> RegularHeader, span |-> TRUE, text |-> "10.0"],
    [h4 |-> TRUE, header |-> SpecialHeader, span |-> TRUE, text |-> "8.5"] }
ServedPages == SeqsUpTo(ServedEntries, MaxEpisodes)

\* an exception leaves the try block: line 113-118
Raise(exc) ==
  /\ raised' = exc
  /\ result' = ExceptionResult(exc)
  /\ pc' = "done"

\* the season the loop of line 101 is at
CurrentSeason == seasons[idx]

\* line 97: search_series(title), the fetch fails
SearchFails(cls) ==
  /\ pc = "search"
  /\ Raise(FetchException(cls))
  /\ UNCHANGED <<limiterVars, scenarioVars, threadVars, resp, ratingsVars,
                 title, imdb_id, display_title, seasons, idx, ratings,
                 all_scores, log, fetched>>

\* line 97: search_series(title), the page p is served
SearchReturns(p) ==
  /\ pc = "search"
  /\ IF SearchSeries(p).found
     THEN /\ imdb_id' = SearchSeries(p).id
          /\ display_title' = SearchSeries(p).text
          /\ pc' = "seasons"
          /\ UNCHANGED <<result, raised>>
     ELSE /\ Raise(NotFound(title))
          /\ UNCHANGED <<imdb_id, display_title>>
  /\ UNCHANGED <<limiterVars, scenarioVars, threadVars, resp, ratingsVars,
                 title, seasons, idx, ratings, all_scores, log, fetched>>

\* line 98: get_season_numbers(imdb_id), the fetch fails
SeasonsFails(cls) ==
  /\ pc = "seasons"
  /\ Raise(FetchException(cls))
  /\ UNCHANGED <<limiterVars, scenarioVars, threadVars, resp, ratingsVars,
                 title, imdb_id, display_title, seasons, idx, ratings,
                 all_scores, log, fetched>>

\* line 98-101: get_season_numbers(imdb_id), the page p is served; with no
\* season the loop is skipped and line 107 returns
SeasonsReturns(p) ==
  /\ pc = "seasons"
  /\ IF SeasonNumbersRaise(p)
     THEN /\ Raise(IntTooLong)
          /\ UNCHANGED <<seasons, idx>>
     ELSE /\ seasons' = GetSeasonNumbers(p)
          /\ idx' = 1
          /\ raised' = raised
          /\ IF GetSeasonNumbers(p) = <<>>
             THEN pc' = "done" /\ result' = SuccessResult(display_title, imdb_id, <<>>)
             ELSE pc' = "fetch" /\ result' = result
  /\ UNCHANGED <<limiterVars, scenarioVars, threadVars, resp, ratingsVars,
                 title, imdb_id, display_title, ratings, all_scores, log,
                 fetched>>

\* line 102: get_episode_ratings(imdb_id, s) sends its request
FetchStarts ==
  /\ pc = "fetch"
  /\ pc' = "fetching"
  /\ log' = Append(log, [ev |-> "start", season |-> CurrentSeason])
  /\ UNCHANGED <<limiterVars, scenarioVars, threadVars, resp, ratingsVars,
                 title, imdb_id, display_title, seasons, idx, ratings,
                 all_scores, result, raised, fetched>>

\* line 102: the fetch of the season fails
FetchFails(cls) ==
  /\ pc = "fetching"
  /\ Raise(FetchException(cls))
  /\ log' = Append(log, [ev |-> "fail", season |-> CurrentSeason])
  /\ UNCHANGED <<limiterVars, scenarioVars, threadVars, resp, ratingsVars,
                 title, imdb_id, display_title, seasons, idx, ratings,
                 all_scores, fetched>>

\* line 102-104: the page p is served; the list is kept if it is long enough
FetchReturns(p) ==
  /\ pc = "fetching"
  /\ ratings' = GetEpisodeRatings(p)
  /\ all_scores' = IF KeepSeason(GetEpisodeRatings(p))
                   THEN Append(all_scores, GetEpisodeRatings(p))
                   ELSE all_scores
  /\ log' = Append(log, [ev |-> "end", season |-> CurrentSeason])
  /\ fetched' = fetched \cup {<<CurrentSeason, GetEpisodeRatings(p)>>}
  /\ pc' = "sleep"
  /\ UNCHANGED <<limiterVars, scenarioVars, threadVars, resp, ratingsVars,
                 title, imdb_id, display_title, seasons, idx, result, raised>>

\* line 101, 107: the loop moves to the next season, or get_scores returns
NextSeason ==
  /\ idx' = idx + 1
  /\ IF idx + 1 > Len(seasons)
     THEN pc' = "done" /\ result' = SuccessResult(display_title, imdb_id, all_scores)
     ELSE pc' = "fetch" /\ result' = result

\* Sleep with time.sleep moved inside the if of line 103
SleepSkipDiscarded ==
  /\ pc = "sleep"
  /\ log' = IF KeepSeason(ratings)
            THEN Append(log, [ev |-> "sleep", season |-> CurrentSeason])
            ELSE log
  /\ NextSeason
  /\ UNCHANGED <<limiterVars, scenarioVars, threadVars, resp, ratingsVars,
                 title, imdb_id, display_title, seasons, ratings, all_scores,
                 raised, fetched>>
\* line 105: time.sleep(0.3), then the loop goes on
Sleep ==
  /\ pc = "sleep"
  /\ log' = Append(log, [ev |-> "sleep", season |-> CurrentSeason])
  /\ NextSeason
  /\ UNCHANGED <<limiterVars, scenarioVars, threadVars, resp, ratingsVars,
                 title, imdb_id, display_title, seasons, ratings, all_scores,
                 raised, fetched>>

InitScores ==
  /\ InitLimiter
  /\ InitRatingsIdle
  /\ pc = "search"
  /\ title \in Titles
  /\ imdb_id = ""
  /\ display_title = ""
  /\ seasons = <<>>
  /\ idx = 0
  /\ ratings = <<>>
  /\ all_scores = <<>>
  /\ result = NoResult
  /\ raised = NoException
  /\ log = <<>>
  /\ fetched = {}

NextScores ==
  \/ pc = "search" /\ \E cls \in FetchFailures : SearchFails(cls)
  \/ pc = "search" /\ \E p \in SearchPages : SearchReturns(p)
  \/ pc = "seasons" /\ \E cls \in FetchFailures : SeasonsFails(cls)
  \/ pc = "seasons" /\ \E p \in SeasonPages : SeasonsReturns(p)
  \/ FetchStarts
  \/ pc = "fetching" /\ \E cls \in FetchFailures : FetchFails(cls)
  \/ pc = "fetching" /\ \E p \in ServedPages : FetchReturns(p)
  \/ Sleep
SpecScores == InitScores /\ [][NextScores]_vars

\* ------------------------------------------------------------ handler.do_GET
\* str.strip() on the header values the requests carry
Strip(s) ==
  CASE s = " " -> ""
    [] s = " A" -> "A"
    [] s = " B " -> "B"
    [] OTHER -> s

\* the x-forwarded-for headers (split at ","), x-real-ip headers and peer
\* addresses requests arrive with; "" is an absent header
XForwardedFor == {<<"">>, <<" ">>, <<" A">>, <<" B ", "A">>, <<"B">>}
XRealIp == {"", "A", "B"}
PeerAddress == {"A", "B"}

\* line 146-152: _get_client_ip
GetClientIp(xff, real_ip, peer) ==
  IF Strip(xff[1]) # "" THEN Strip(xff[1])
  ELSE IF real_ip # "" THEN real_ip
  ELSE peer

\* the values of the title parameter in the query string, in order
Queries == {<<>>, <<"">>, <<"dark">>, <<"", "dark">>}

\* line 170-172: parse_qs drops blank values; params.get("title", [""])[0]
QueryTitle(q) ==
  LET given == SelectSeq(q, LAMBDA v : v # "")
  IN IF given = <<>> THEN "" ELSE given[1]

\* what get_scores(t) may return (lines 107-118)
GetScoresReturns(t) ==
  { SuccessResult("Dark", "tt1", <<>>),
    ExceptionResult(NotFound(t)),
    ExceptionResult(FetchException("Timeout")) }

NoStore == [kind |-> "no-store", s_maxage |-> 0]
Absent == [kind |-> "absent", s_maxage |-> 0]
\* line 182
CdnCached == [kind |-> "max-age=0", s_maxage |-> CACHE_MAX_AGE_SECONDS]

\* line 159-168: the response to a rejected request
RateLimitedResponse(q) ==
  [status |-> 429, retry_after |-> RATE_LIMIT_WINDOW_SECONDS,
   cache_control |-> Absent, cdn_cache_control |-> Absent,
   body |-> [success |-> FALSE,
             error |-> [text |-> "Rate limit exceeded. Please try again later.",
                        arg |-> ""]],
   calls |-> <<"_is_rate_limited">>, query |-> q]

\* AdmittedResponse without the test of line 174
AdmittedResponseNoTitleCheck(q, scores) ==
  [status |-> 200, retry_after |-> 0,
   cache_control |-> IF scores.success THEN CdnCached ELSE NoStore,
   cdn_cache_control |-> IF scores.success THEN CdnCached ELSE NoStore,
   body |-> scores,
   calls |-> <<"_is_rate_limited", "get_scores">>, query |-> q]
\* line 170-192: the response to an admitted request
AdmittedResponse(q, scores) ==
  IF QueryTitle(q) = ""
  THEN [status |-> 200, retry_after |-> 0,
        cache_control |-> NoStore, cdn_cache_control |-> NoStore,
        body |-> [success |-> FALSE,
                  error |-> [text |-> "Missing 'title' parameter", arg |-> ""]],
        calls |-> <<"_is_rate_limited">>, query |-> q]
  ELSE [status |-> 200, retry_after |-> 0,
        cache_control |-> IF scores.success THEN CdnCached ELSE NoStore,
        cdn_cache_control |-> IF scores.success THEN CdnCached ELSE NoStore,
        body |-> scores,
        calls |-> <<"_is_rate_limited", "get_scores">>, query |-> q]

\* Response without the return of line 168
ResponseNoReturn(limited, q, scores) ==
  IF limited
  THEN [AdmittedResponse(q, scores) EXCEPT !.status = 429,
          !.retry_after = RATE_LIMIT_WINDOW_SECONDS]
  ELSE AdmittedResponse(q, scores)
\* line 158-192: the response of do_GET, given what _is_rate_limited returned
Response(limited, q, scores) ==
  IF limited THEN RateLimitedResponse(q) ELSE AdmittedResponse(q, scores)

\* line 154-192: do_GET serves one request; scores is what get_scores returns
\* if it is called
do_GET(xff, real_ip, peer, q, scores) ==
  /\ CallCore(GetClientIp(xff, real_ip, peer))
  /\ resp' = Response(IsRateLimited(request_counts,
                                    GetClientIp(xff, real_ip, peer), now),
                      q, scores)
  /\ UNCHANGED <<callIndex, firstCallAt, lastRejectAt>>

NextHandler ==
  \E xff \in XForwardedFor, real_ip \in XRealIp, peer \in PeerAddress,
     q \in Queries :
    \E scores \in GetScoresReturns(QueryTitle(q)) :
       do_GET(xff, real_ip, peer, q, scores)
SpecHandler == Init /\ [][NextHandler]_vars

\* ------------------------------------------------------------ claims: limiter
\* the number of admitted calls of the latest caller that lay inside the window
\* when its latest call was made (that call itself not counted)
PriorAdmitted ==
  InWindow(own[last.client], last.at) - (IF last.limited THEN 0 ELSE 1)

\* C1: starting from an empty history, the first RATE_LIMIT_REQUESTS calls of a
\* client made within one window are all admitted, the next call within that
\* window is rejected, and a call made once the window has elapsed since the
\* client's admitted calls is admitted again.
C1_TenAdmittedThenRejectedThenAdmitted ==
  LET c == last.client IN
  c # NoClient =>
    /\ (/\ callIndex[c] <= RATE_LIMIT_REQUESTS
        /\ last.at < firstCallAt[c] + RATE_LIMIT_WINDOW_SECONDS) => ~last.limited
    /\ (/\ callIndex[c] = RATE_LIMIT_REQUESTS + 1
        /\ last.at < firstCallAt[c] + RATE_LIMIT_WINDOW_SECONDS) => last.limited
    /\ last.gap >= RATE_LIMIT_WINDOW_SECONDS => ~last.limited

\* ten calls of A were admitted and the 11th rejected within one window; the
\* 12th call, made a full window after A's admitted calls, is admitted
C1_Witness ==
  /\ last.client = "A"
  /\ callIndex["A"] = RATE_LIMIT_REQUESTS + 2
  /\ firstCallAt["A"] = 0
  /\ lastRejectAt["A"] >= 0
  /\ lastRejectAt["A"] < RATE_LIMIT_WINDOW_SECONDS
  /\ last.gap >= RATE_LIMIT_WINDOW_SECONDS
  /\ ~last.limited
  /\ request_counts["A"] = <<last.at>>

\* the 11th call of A within the window of its first call is rejected
C1_WitnessRejected ==
  /\ last.client = "A"
  /\ callIndex["A"] = RATE_LIMIT_REQUESTS + 1
  /\ last.at < firstCallAt["A"] + RATE_LIMIT_WINDOW_SECONDS
  /\ last.limited

IsSuffix(new, old) ==
  \E k \in 0..Len(old) : new = SubSeq(old, k + 1, Len(old))

C10_State ==
  \A c \in Clients :
    /\ Len(request_counts[c]) <= RATE_LIMIT_REQUESTS
    /\ last.client = c =>
         \A i \in 1..Len(request_counts[c]) :
           request_counts[c][i] > last.at - RATE_LIMIT_WINDOW_SECONDS
    /\ (last.client = c /\ last.at = now) => request_counts[c] = own[c]

C10_Step ==
  \A c \in Clients :
    \/ request_counts'[c] = request_counts[c]
    \/ /\ seq' # seq
       /\ last'.client = c
       /\ IF last'.limited
          THEN IsSuffix(request_counts'[c], request_counts[c])
          ELSE /\ Len(request_counts'[c]) >= 1
               /\ request_counts'[c][Len(request_counts'[c])] = last'.at
               /\ IsSuffix(SubSeq(request_counts'[c], 1, Len(request_counts'[c]) - 1),
                           request_counts[c])

\* C10: a rejected call records nothing: the list stored for a client changes
\* only at that client's calls, a rejected call leaves a suffix of the old list,
\* an admitted call leaves a suffix of the old list followed by its own time;
\* the list never holds more than RATE_LIMIT_REQUESTS entries, after a check it
\* holds no entry older than the window, and right after a check it is exactly
\* the times of the client's admitted calls inside the window.
C10_RejectRecordsNothing == [](C10_State) /\ [][C10_Step]_vars

\* A has been rejected, and its list still holds the ten admitted times only
C10_Witness ==
  /\ last.client = "A"
  /\ last.limited
  /\ last.at = TickSeconds
  /\ Len(request_counts["A"]) = RATE_LIMIT_REQUESTS
  /\ request_counts["A"][1] = 0
  /\ request_counts["A"][RATE_LIMIT_REQUESTS] = TickSeconds

C3_Frame ==
  \A c \in Clients :
    request_counts'[c] # request_counts[c] => (seq' # seq /\ last'.client = c)

C3_OwnDecision ==
  (last.client # NoClient /\ last.at = now) =>
     (last.limited <=> PriorAdmitted >= RATE_LIMIT_REQUESTS)

\* C3: a call for one client leaves the list of every other client unchanged,
\* and a client is rejected exactly when RATE_LIMIT_REQUESTS of its own admitted
\* calls lie inside the window, whatever the other clients have done.
C3_ClientsShareNothing == [](C3_OwnDecision) /\ [][C3_Frame]_vars

\* B is admitted for the first time while A has used up its window
C3_Witness ==
  /\ last.client = "B"
  /\ ~last.limited
  /\ Len(request_counts["A"]) = RATE_LIMIT_REQUESTS
  /\ InWindow(request_counts["A"], now) = RATE_LIMIT_REQUESTS
  /\ request_counts["B"] = <<now>>

\* ------------------------------------------------------------ claims: threads
\* C2: under concurrent calls of _is_rate_limited for one client, the number
\* of calls admitted for the client within a window never exceeds
\* RATE_LIMIT_REQUESTS.
C2_AdmissionsNeverExceedLimit ==
  \A c \in Clients : Len(own[c]) <= RATE_LIMIT_REQUESTS

\* no update is lost: once no call is running, every admitted call of the
\* window is recorded in the client's list
C2_NoAdmissionLost ==
  \A c \in Clients :
    (\A t \in Threads : tpc[t] = "idle") =>
       InWindow(request_counts[c], now) = Len(own[c])

\* ------------------------------------------------------------ claims: handler
\* the positions at which do_GET called the function named
CallsOf(name) == {i \in 1..Len(resp.calls) : resp.calls[i] = name}

MissingTitleBody ==
  [success |-> FALSE, error |-> [text |-> "Missing 'title' parameter", arg |-> ""]]

\* the request carries no title parameter, or only empty ones
TitleMissingOrEmpty(q) == \A i \in 1..Len(q) : q[i] = ""

\* C4: whenever _is_rate_limited rejects a GET request, do_GET answers with
\* status 429 and a Retry-After header and get_scores is not called; and every
\* call of get_scores comes after the call of _is_rate_limited.
C4_RejectedNeverReachesGetScores ==
  resp.status # 0 =>
    /\ last.limited =>
         /\ resp.status = 429
         /\ resp.retry_after = RATE_LIMIT_WINDOW_SECONDS
         /\ CallsOf("get_scores") = {}
    /\ ~last.limited => resp.status = 200
    /\ \A i \in CallsOf("get_scores") :
         \E j \in CallsOf("_is_rate_limited") : j < i

\* a request that names a title has been rejected
C4_Witness ==
  /\ resp.status = 429
  /\ last.limited
  /\ QueryTitle(resp.query) = "dark"

\* C5 as stated: every GET request whose title parameter is missing or empty is
\* answered with the "Missing 'title' parameter" body and no-store, and
\* get_scores is not called.
C5_MissingTitleAlwaysAnswered ==
  (resp.status # 0 /\ TitleMissingOrEmpty(resp.query)) =>
    /\ resp.body = MissingTitleBody
    /\ resp.cache_control = NoStore
    /\ resp.cdn_cache_control = NoStore
    /\ CallsOf("get_scores") = {}

\* C5, amended: every GET request the rate limiter admits and whose title
\* parameter is missing or empty is answered with status 200, the "Missing
\* 'title' parameter" body and no-store, and get_scores is not called; a
\* rejected request is answered with 429 whatever its title.
C5_AdmittedMissingTitleAnswered ==
  (resp.status # 0 /\ TitleMissingOrEmpty(resp.query)) =>
    /\ ~last.limited =>
         /\ resp.status = 200
         /\ resp.body = MissingTitleBody
         /\ resp.cache_control = NoStore
         /\ resp.cdn_cache_control = NoStore
    /\ CallsOf("get_scores") = {}

\* an admitted request with an empty title parameter has been answered
C5_Witness ==
  /\ resp.status = 200
  /\ ~last.limited
  /\ resp.query = <<"">>
  /\ resp.body = MissingTitleBody

\* ------------------------------------------------------------ claims: get_scores
\* C6 as stated: of the failures inside get_scores only the not-found raised by
\* search_series has its message passed through; any other failure at any stage
\* yields exactly {success: false, error: the generic message}.
C6_OnlyNotFoundPassedThrough ==
  (pc = "done" /\ raised.cls # "none") =>
    IF raised.not_found
    THEN result = [success |-> FALSE,
                   error |-> [text |-> "No TV series found for", arg |-> title]]
    ELSE result = [success |-> FALSE, error |-> GenericError]

\* the k-th least element of a set of integers
Nth(S, k) == CHOOSE x \in S : Cardinality({y \in S : y <= x}) = k

\* the fetched seasons whose list has more than one rating
KeptSeasons == {f[1] : f \in {g \in fetched : Len(g[2]) > 1}}

\* the list fetched for season s
FetchedFor(s) == (CHOOSE f \in fetched : f[1] = s)[2]

\* C7: the seasons of a successful result are exactly the rating lists of the
\* enumerated seasons whose fetched list has more than one rating, in ascending
\* season order; no list of length 0 or 1 is among them.
C7_OnlySeasonsWithTwoRatings ==
  (pc = "done" /\ result.success) =>
    /\ \A i \in 1..Len(seasons) : \A j \in 1..Len(seasons) :
         i < j => seasons[i] < seasons[j]
    /\ {f[1] : f \in fetched} = {seasons[i] : i \in 1..Len(seasons)}
    /\ Cardinality(fetched) = Len(seasons)
    /\ Len(result.seasons) = Cardinality(KeptSeasons)
    /\ \A k \in 1..Len(result.seasons) :
         /\ result.seasons[k] = FetchedFor(Nth(KeptSeasons, k))
         /\ Len(result.seasons[k]) >= 2

\* three seasons were fetched, one was discarded, two different lists were kept
C7_Witness ==
  /\ pc = "done"
  /\ result.success
  /\ Len(seasons) = 3
  /\ Len(result.seasons) = 2
  /\ result.seasons[1] # result.seasons[2]
  /\ \E f \in fetched : Len(f[2]) = 1

\* the number of log entries of the kind ev
CountOf(ev) == Cardinality({i \in 1..Len(log) : log[i].ev = ev})

\* C8: the season fetches of one call are serial and in ascending season order,
\* and a sleep follows every fetch that completes, whether or not its list is
\* kept: the log reads start, end, sleep, start, end, sleep, ... over the
\* seasons in order, a fetch starts only after the sleep that follows the
\* previous fetch, and at most one fetch is under way.
C8_FetchesSerialAndPaced ==
  /\ \A i \in 1..Len(log) :
       /\ log[i].season = seasons[((i - 1) \div 3) + 1]
       /\ (i % 3 = 1) => log[i].ev = "start"
       /\ (i % 3 = 2) => log[i].ev \in {"end", "fail"}
       /\ (i % 3 = 0) => log[i].ev = "sleep"
       /\ log[i].ev = "fail" => i = Len(log)
  /\ \A i \in 1..Len(log) : \A j \in 1..Len(log) :
       (i < j /\ log[i].ev = "start" /\ log[j].ev = "start")
          => log[i].season < log[j].season
  /\ CountOf("start") - CountOf("end") - CountOf("fail") \in {0, 1}
  /\ pc = "fetch" => Len(log) = 3 * (idx - 1)
  /\ pc = "fetching" => Len(log) = 3 * (idx - 1) + 1
  /\ pc = "sleep" => Len(log) = 3 * (idx - 1) + 2
  /\ (pc = "done" /\ result.success) =>
       (Len(log) = 3 * Len(seasons) /\ CountOf("sleep") = Len(seasons))

\* a call has returned after three seasons, of which it discarded one
C8_Witness ==
  /\ pc = "done"
  /\ result.success
  /\ Len(seasons) = 3
  /\ Len(result.seasons) < 3
  /\ CountOf("sleep") = 3

\* ------------------------------------------------------------ claims: ratings
\* the headers, among HeaderTexts, that mark an episode zero
ZeroHeaders ==
  { <<"S", "1", ".", "E", "0">>, <<"S", "1", ".", "E", "0", " ", "x">> }

\* the rating texts, among RatingTexts, that read as a number in (0.0, 10.0],
\* with that number in tenths
CountedTexts == {<<"8.5", 85>>, <<"10.0", 100>>, <<"10", 100>>}

\* the positions of the entries of the page whose rating is to be returned
Counted ==
  {i \in 1..Len(page) :
     /\ ~(page[i].h4 /\ page[i].header \in ZeroHeaders)
     /\ page[i].span
     /\ \E ct \in CountedTexts : ct[1] = page[i].text}

TenthsOf(text) == (CHOOSE ct \in CountedTexts : ct[1] = text)[2]

\* C9: get_episode_ratings returns, in document order, exactly the ratings of
\* the entries that are not episode-zero specials and whose rating reads as a
\* number in (0.0, 10.0]: specials are left out whatever their rating, 0.0 and
\* values above 10.0 are left out, 10.0 is kept, and an entry with no rating or
\* an unreadable one is dropped without ending the loop.
C9_RatingsOfRegularEpisodesInRange ==
  out.done =>
    /\ Len(out.ratings) = Cardinality(Counted)
    /\ \A k \in 1..Len(out.ratings) :
         out.ratings[k] = TenthsOf(page[Nth(Counted, k)].text)

\* a special rated 8.5 is left out and the regular episode after it, rated
\* 10.0, is kept
C9_Witness ==
  /\ out.done
  /\ Len(page) = 2
  /\ page[1].h4 /\ page[1].header \in ZeroHeaders /\ page[1].text = "8.5"
  /\ page[2].h4 /\ page[2].header = <<"S", "1", ".", "E", "1">>
  /\ page[2].text = "10.0"
  /\ out.ratings = <<100>>

====
